---- MODULE Spec2Model ----
(***************************************************************************)
(* Model of the semantic chunking pipeline of tldrify                      *)
(* (src/src/core/embeddings/chunker.py): SemanticChunker.chunk_text and    *)
(* the functions it calls.                                                 *)
(*                                                                         *)
(* Text.  A Python str is modelled as a run-length encoded string: a       *)
(* sequence of runs <<c, n>>, n >= 1 copies of the character c, in which   *)
(* no two neighbouring runs have the same character.  Every value of the   *)
(* model is therefore one concrete string, and slicing, stripping,         *)
(* joining, splitting and comparing are done character-exactly.  The       *)
(* inputs use the alphabet Letters \cup EndChars \cup SpaceChars.          *)
(*                                                                         *)
(* Optional[T] is modelled as a sequence: <<>> is None, <<x>> is x.        *)
(*                                                                         *)
(* Specifications.  Spec is one call of chunk_text on a new chunker.       *)
(* SpecCalls is two calls on one chunker, their steps interleaved.         *)
(* SpecSplit, SpecHier and SpecMerge call _split_into_sentences,           *)
(* _add_chunk_hierarchy and merge_small_chunks on arguments of their own.  *)
(* SpecPages is a call of chunk_text with page_breaks, SpecBlocks one on a *)
(* text with code blocks, tables and lists, and SpecService a call of      *)
(* ChunkingService.process_document, which calls chunk_text.               *)
(***************************************************************************)
EXTENDS Integers, Sequences, FiniteSets, TLC

VARIABLES
    config,             \* self.config (ChunkConfig) of the chunker
    text,               \* the text argument of chunk_text
    page_breaks,        \* the page_breaks argument of chunk_text
    pc,                 \* position in chunk_text
    structures,         \* structures (chunk_text)
    sentences,          \* sentences (_create_sliding_window_chunks)
    sent_idx,           \* number of loop iterations done (next sent_idx)
    current_chunk,      \* current_chunk: indices (1-based) into sentences
    current_tokens,     \* current_tokens
    current_start_char, \* current_start_char
    chunk_index,        \* chunk_index
    chunks,             \* chunks built by _create_sliding_window_chunks
    windows,            \* history: windows[j] = current_chunk when chunks[j] was created
    hier,               \* chunks after the hierarchy step of chunk_text
    result,             \* the list chunk_text returns
    error,              \* the exception chunk_text raised, if any
    chunk_hashes,       \* self.chunk_hashes of the chunker
    other,              \* the frame of a second call on the same chunker, if any
    special_blocks,     \* special_blocks (chunk_text)
    document,           \* the Document row process_document is called for, if any
    ocr_results,        \* the OCRResult rows of the document, by page number
    db_chunks           \* the TextChunk rows stored for the document

vars == <<config, text, page_breaks, pc, structures, sentences, sent_idx,
          current_chunk, current_tokens, current_start_char, chunk_index,
          chunks, windows, hier, result, error, chunk_hashes, other,
          special_blocks, document, ocr_results, db_chunks>>

-----------------------------------------------------------------------------
(* Optional values and small helpers                                       *)

None == <<>>
Some(x) == <<x>>

Min2(a, b) == IF a <= b THEN a ELSE b
Abs(x) == IF x < 0 THEN -x ELSE x

RECURSIVE SumSeq(_)
SumSeq(s) == IF s = <<>> THEN 0 ELSE Head(s) + SumSeq(Tail(s))

Range(s) == {s[i] : i \in DOMAIN s}

Reverse(s) == [i \in 1..Len(s) |-> s[Len(s) + 1 - i]]

-----------------------------------------------------------------------------
(* Run-length encoded strings                                              *)

Letters == {"a", "b"}
EndChars == {".", "!", "?"}
SpaceChars == {" ", "\n"}

IsSpace(c) == c \in SpaceChars
IsLetter(c) == c \in Letters

\* len(t)
StrLen(t) == SumSeq([i \in DOMAIN t |-> t[i][2]])

\* a + b
Cat(a, b) ==
    IF a = <<>> THEN b
    ELSE IF b = <<>> THEN a
    ELSE IF a[Len(a)][1] = b[1][1]
         THEN SubSeq(a, 1, Len(a) - 1)
              \o << <<b[1][1], a[Len(a)][2] + b[1][2]>> >>
              \o Tail(b)
         ELSE a \o b

\* t[:k]
RECURSIVE Take(_, _)
Take(t, k) ==
    IF k <= 0 \/ t = <<>> THEN <<>>
    ELSE IF t[1][2] >= k THEN << <<t[1][1], k>> >>
    ELSE <<t[1]>> \o Take(Tail(t), k - t[1][2])

\* t[k:]
RECURSIVE Drop(_, _)
Drop(t, k) ==
    IF t = <<>> THEN <<>>
    ELSE IF k <= 0 THEN t
    ELSE IF t[1][2] > k THEN << <<t[1][1], t[1][2] - k>> >> \o Tail(t)
    ELSE Drop(Tail(t), k - t[1][2])

\* t[i:j]
Slice(t, i, j) == Take(Drop(t, i), j - i)

\* t.lstrip(), t.rstrip(), t.strip()
RECURSIVE LStrip(_)
LStrip(t) ==
    IF t = <<>> THEN <<>>
    ELSE IF IsSpace(t[1][1]) THEN LStrip(Tail(t))
    ELSE t

RStrip(t) == Reverse(LStrip(Reverse(t)))

Strip(t) == RStrip(LStrip(t))

\* The character ` (a string the parser does not take literally).
Backtick == "backtick"

\* p in t, for a pattern p that is n copies of one character
HasRun(t, c, n) == \E i \in DOMAIN t : t[i][1] = c /\ t[i][2] >= n

-----------------------------------------------------------------------------
(* Tokenizer                                                               *)

\* The character classes the tokenizer's pre-tokenization separates.
CharClass(c) == IF IsSpace(c) THEN "space" ELSE IF IsLetter(c) THEN "word" ELSE "punct"

\* count_tokens: len(self.tokenizer.encode(text)).  The encoding is the
\* tiktoken library's; it is modelled by its pre-tokenization: one token per
\* maximal piece of letters and one per maximal piece of other characters,
\* white space separating pieces and belonging to none.
count_tokens(t) ==
    Cardinality({i \in DOMAIN t :
        /\ CharClass(t[i][1]) # "space"
        /\ (i = 1 \/ CharClass(t[i - 1][1]) # CharClass(t[i][1]))})

\* hashlib.md5(content.encode()).hexdigest(): a digest of the content, taken
\* to be collision-free.
Md5(t) == <<"md5", t>>

-----------------------------------------------------------------------------
(* _split_into_sentences                                                   *)

\* Number of characters in the first i runs of t.
Offset(t, i) == StrLen(SubSeq(t, 1, i))

\* Index of the last run of the white-space piece that run i starts.
RECURSIVE SpaceEnd(_, _)
SpaceEnd(t, i) ==
    IF i < Len(t) /\ IsSpace(t[i + 1][1]) THEN SpaceEnd(t, i + 1) ELSE i

\* match.end() of every match of ([.!?])\s+ in t, left to right, from run i on.
RECURSIVE MatchEnds(_, _)
MatchEnds(t, i) ==
    IF i >= Len(t) THEN <<>>
    ELSE IF t[i][1] \in EndChars /\ IsSpace(t[i + 1][1])
         THEN LET j == SpaceEnd(t, i + 1)
              IN  <<Offset(t, j)>> \o MatchEnds(t, j + 1)
         ELSE MatchEnds(t, i + 1)

Sentence(txt, s, e) == [text |-> txt, start |-> s, end |-> e]

\* Mutant of SplitFrom: a span ends where its stripped text ends, counted
\* from the span's start.
RECURSIVE SplitFromStrippedEnd(_, _, _)
SplitFromStrippedEnd(t, ends, current_pos) ==
    IF ends = <<>>
    THEN IF current_pos < StrLen(t)
         THEN LET remaining == Strip(Drop(t, current_pos))
              IN  IF remaining # <<>>
                  THEN <<Sentence(remaining, current_pos, current_pos + StrLen(remaining))>>
                  ELSE <<>>
         ELSE <<>>
    ELSE LET end_pos == Head(ends)
             sentence_text == Strip(Slice(t, current_pos, end_pos))
         IN  (IF sentence_text # <<>>
              THEN <<Sentence(sentence_text, current_pos, current_pos + StrLen(sentence_text))>>
              ELSE <<>>)
             \o SplitFromStrippedEnd(t, Tail(ends), end_pos)

\* Mutant of SplitFrom: the remaining text is kept also when it is white
\* space only.
RECURSIVE SplitFromKeepBlank(_, _, _)
SplitFromKeepBlank(t, ends, current_pos) ==
    IF ends = <<>>
    THEN IF current_pos < StrLen(t)
         THEN <<Sentence(Strip(Drop(t, current_pos)), current_pos, StrLen(t))>>
         ELSE <<>>
    ELSE LET end_pos == Head(ends)
         IN  <<Sentence(Strip(Slice(t, current_pos, end_pos)), current_pos, end_pos)>>
             \o SplitFromKeepBlank(t, Tail(ends), end_pos)

RECURSIVE SplitFrom(_, _, _)
SplitFrom(t, ends, current_pos) ==
    IF ends = <<>>
    THEN IF current_pos < StrLen(t)
         THEN LET remaining == Strip(Drop(t, current_pos))
              IN  IF remaining # <<>>
                  THEN <<Sentence(remaining, current_pos, StrLen(t))>>
                  ELSE <<>>
         ELSE <<>>
    ELSE LET end_pos == Head(ends)
             sentence_text == Strip(Slice(t, current_pos, end_pos))
         IN  (IF sentence_text # <<>>
              THEN <<Sentence(sentence_text, current_pos, end_pos)>>
              ELSE <<>>)
             \o SplitFrom(t, Tail(ends), end_pos)

split_into_sentences(t) == SplitFrom(t, MatchEnds(t, 1), 0)

-----------------------------------------------------------------------------
(* DocumentStructureExtractor.extract_structure                            *)

\* text.split('\n'); cur is the line being collected.
RECURSIVE SplitLines(_, _)
SplitLines(t, cur) ==
    IF t = <<>> THEN <<cur>>
    ELSE IF t[1][1] = "\n"
         THEN <<cur>> \o [k \in 1..(t[1][2] - 1) |-> <<>>] \o SplitLines(Tail(t), <<>>)
         ELSE SplitLines(Tail(t), cur \o <<t[1]>>)

Lines(t) == SplitLines(t, <<>>)

\* The heading patterns, tried in order with re.IGNORECASE on the stripped
\* line.  Over the model's alphabet (no digits, no '#') the chapter, section
\* and Markdown patterns match no line; the first title pattern
\* ^([A-Z][A-Z\s]{4,})$ matches a line of letters and white space of at least
\* 5 characters, and the second title pattern only lines the first one
\* matches.  The title is group 1, the whole line.
TitleMinRest == 4

IsTitleLine(line) ==
    /\ line # <<>>
    /\ IsLetter(line[1][1])
    /\ \A i \in DOMAIN line : IsLetter(line[i][1]) \/ IsSpace(line[i][1])
    /\ StrLen(line) >= 1 + TitleMinRest

RECURSIVE StructuresFrom(_, _)
StructuresFrom(lines, i) ==
    IF i > Len(lines) THEN <<>>
    ELSE LET line == Strip(lines[i])
         IN  (IF line # <<>> /\ IsTitleLine(line)
              THEN <<[line_num |-> i - 1, type |-> "title", level |-> 2,
                      title |-> Strip(line), full_text |-> line]>>
              ELSE <<>>)
             \o StructuresFrom(lines, i + 1)

extract_structure(t) == StructuresFrom(Lines(t), 1)

-----------------------------------------------------------------------------
(* TextChunk and _create_chunk                                             *)

\* struct.get('line_num', 0) * 50: the approximate position of a heading.
LinePosFactor == 50

\* The dataclass TextChunk; chunk_hash is set by __post_init__.
TextChunk(content, index, token_count, start_char, end_char, start_page, end_page, section_title, chunk_level, metadata) ==
    [content |-> content,
     chunk_index |-> index,
     token_count |-> token_count,
     start_char |-> start_char,
     end_char |-> end_char,
     start_page |-> start_page,
     end_page |-> end_page,
     section_title |-> section_title,
     chunk_level |-> chunk_level,
     parent_chunk_id |-> None,
     metadata |-> metadata,
     embedding_id |-> None,
     chunk_hash |-> Md5(content)]

\* The title of the last structure whose approximate position is at most start_char.
RECURSIVE SectionTitle(_, _)
SectionTitle(structs, start_char) ==
    IF structs = <<>> THEN None
    ELSE LET struct == structs[Len(structs)]
         IN  IF struct.line_num * LinePosFactor <= start_char
             THEN Some(struct.title)
             ELSE SectionTitle(SubSeq(structs, 1, Len(structs) - 1), start_char)

\* Mutant of StartPage: the loop does not break at the first page break above
\* start_char and ends with the last one.
StartPageNoBreak(breaks, start_char) ==
    LET hits == {i \in DOMAIN breaks : start_char < breaks[i]}
    IN  IF hits = {} THEN None
        ELSE Some(CHOOSE i \in hits : \A j \in hits : j <= i)

\* start_page: 1 + index of the first page break above start_char.
StartPage(breaks, start_char) ==
    LET hits == {i \in DOMAIN breaks : start_char < breaks[i]}
    IN  IF hits = {} THEN None
        ELSE Some(CHOOSE i \in hits : \A j \in hits : i <= j)

\* end_page: 1 + index of the first page break at or above end_char.
EndPage(breaks, end_char) ==
    LET hits == {i \in DOMAIN breaks : end_char <= breaks[i]}
    IN  IF hits = {} THEN None
        ELSE Some(CHOOSE i \in hits : \A j \in hits : i <= j)

\* Number of occurrences of the character c in t.
CountChar(t, c) == SumSeq([i \in DOMAIN t |-> IF t[i][1] = c THEN t[i][2] ELSE 0])

\* A list pattern matches at run i: the item starts a line, white space aside.
AtLineStart(t, i) ==
    \E j \in 1..i :
        /\ \A k \in j..(i - 1) : IsSpace(t[k][1])
        /\ (j = 1 \/ \E k \in j..(i - 1) : t[k][1] = "\n")

OneChar(t, i, cs) == i \in DOMAIN t /\ t[i][1] \in cs /\ t[i][2] = 1

SpaceAt(t, i) == i \in DOMAIN t /\ IsSpace(t[i][1])

\* any(re.search(pattern, text, re.MULTILINE) for pattern in list_patterns).
\* The numbered pattern needs a digit, which the alphabet does not have.
HasList(t) ==
    \E i \in DOMAIN t :
        /\ AtLineStart(t, i)
        /\ \/ OneChar(t, i, {"-", "*"}) /\ SpaceAt(t, i + 1)
           \/ OneChar(t, i, Letters) /\ OneChar(t, i + 1, {")"}) /\ SpaceAt(t, i + 2)
           \/ /\ OneChar(t, i, {"("}) /\ OneChar(t, i + 1, Letters)
              /\ OneChar(t, i + 2, {")"}) /\ SpaceAt(t, i + 3)

create_chunk(txt, index, start_char, end_char, structs, breaks) ==
    TextChunk(txt, index, count_tokens(txt), start_char, end_char,
              StartPage(breaks, start_char), EndPage(breaks, end_char),
              SectionTitle(structs, start_char), 0,
              [has_code |-> HasRun(txt, Backtick, 3),
               has_list |-> HasList(txt),
               has_table |-> CountChar(txt, "|") > 2])

-----------------------------------------------------------------------------
(* DocumentStructureExtractor.detect_special_blocks                        *)

\* The tests made on a line: three backticks in it, re.match of the table
\* pattern ^\|.*\|.*\| (the line begins with a bar and has three of them),
\* and re.match of one of the list patterns.
HasFence(line) == HasRun(line, Backtick, 3)

TableMatch(line) == line # <<>> /\ line[1][1] = "|" /\ CountChar(line, "|") >= 3

ListMatch(line) == HasList(line)

SpecialBlock(type, start, end) == [type |-> type, start |-> start, end |-> end]

\* The code and table branches of the loop body for the line of index i.
CodeTableStep(st, line, i) ==
    IF HasFence(line)
    THEN IF ~st.in_code_block
         THEN [st EXCEPT !.in_code_block = TRUE, !.block_start = i]
         ELSE [st EXCEPT !.in_code_block = FALSE,
                         !.special_blocks = Append(@, SpecialBlock("code", st.block_start, i + 1))]
    ELSE IF TableMatch(line)
    THEN IF ~st.in_table
         THEN [st EXCEPT !.in_table = TRUE, !.block_start = i]
         ELSE st
    ELSE IF st.in_table
    THEN [st EXCEPT !.in_table = FALSE,
                    !.special_blocks = Append(@, SpecialBlock("table", st.block_start, i))]
    ELSE st

\* The list branch of the loop body for the line of index i.
ListStep(st, line, i) ==
    IF ListMatch(line)
    THEN IF ~st.in_list
         THEN [st EXCEPT !.in_list = TRUE, !.block_start = i]
         ELSE st
    ELSE IF st.in_list /\ Strip(line) # <<>>
    THEN [st EXCEPT !.in_list = FALSE,
                    !.special_blocks = Append(@, SpecialBlock("list", st.block_start, i))]
    ELSE st

\* The loop over the lines, from the k-th line (of index k - 1) on.
RECURSIVE BlocksFrom(_, _, _)
BlocksFrom(lines, k, st) ==
    IF k > Len(lines) THEN st.special_blocks
    ELSE BlocksFrom(lines, k + 1,
                    ListStep(CodeTableStep(st, lines[k], k - 1), lines[k], k - 1))

detect_special_blocks(t) ==
    BlocksFrom(Lines(t), 1,
               [in_code_block |-> FALSE, in_table |-> FALSE, in_list |-> FALSE,
                block_start |-> -1, special_blocks |-> <<>>])

-----------------------------------------------------------------------------
(* _is_good_break_point                                                    *)

\* idx is the Python sent_idx (0-based).  Of the block delimiters (three backticks), ---,
\* ___ and ***, each is a run of one character of length 3 or more.
is_good_break_point(idx, sents, structs) ==
    IF idx >= Len(sents) - 1 THEN TRUE
    ELSE LET current_text == sents[idx + 1].text
         IN  \/ HasRun(current_text, "\n", 2)
             \/ \E k \in DOMAIN structs : Abs(structs[k].line_num - idx) <= 1
             \/ \E c \in {Backtick, "-", "_", "*"} : HasRun(current_text, c, 3)

-----------------------------------------------------------------------------
(* _create_sliding_window_chunks                                           *)

\* ' '.join(parts)
RECURSIVE JoinSpace(_)
JoinSpace(parts) ==
    IF parts = <<>> THEN <<>>
    ELSE IF Len(parts) = 1 THEN parts[1]
    ELSE Cat(Cat(parts[1], << <<" ", 1>> >>), JoinSpace(Tail(parts)))

SentTokens(i) == count_tokens(sentences[i].text)

\* Mutant of WindowChunk: end_char taken from the first sentence of the window.
WindowChunkFirstEnd(cur, index, start_char) ==
    create_chunk(JoinSpace([k \in DOMAIN cur |-> sentences[cur[k]].text]),
                 index, start_char, sentences[cur[1]].end,
                 structures, page_breaks)

\* The chunk made of the window cur (indices of sentences).
WindowChunk(cur, index, start_char) ==
    create_chunk(JoinSpace([k \in DOMAIN cur |-> sentences[cur[k]].text]),
                 index, start_char, sentences[cur[Len(cur)]].end,
                 structures, page_breaks)

\* Mutant of OverlapFrom: a sentence that does not fit is passed over and the
\* ones before it are still tried.
RECURSIVE OverlapFromNoBreak(_, _, _)
OverlapFromNoBreak(cur, overlap_chunk, overlap_tokens) ==
    IF cur = <<>> THEN [chunk |-> overlap_chunk, tokens |-> overlap_tokens]
    ELSE LET s == cur[Len(cur)]
             s_tokens == SentTokens(s)
         IN  IF overlap_tokens + s_tokens <= config.overlap_tokens
             THEN OverlapFromNoBreak(SubSeq(cur, 1, Len(cur) - 1), <<s>> \o overlap_chunk,
                                     overlap_tokens + s_tokens)
             ELSE OverlapFromNoBreak(SubSeq(cur, 1, Len(cur) - 1), overlap_chunk,
                                     overlap_tokens)

\* The overlap loop: for s in reversed(current_chunk), most recent first,
\* while the overlap stays within config.overlap_tokens.
RECURSIVE OverlapFrom(_, _, _)
OverlapFrom(cur, overlap_chunk, overlap_tokens) ==
    IF cur = <<>> THEN [chunk |-> overlap_chunk, tokens |-> overlap_tokens]
    ELSE LET s == cur[Len(cur)]
             s_tokens == SentTokens(s)
         IN  IF overlap_tokens + s_tokens <= config.overlap_tokens
             THEN OverlapFrom(SubSeq(cur, 1, Len(cur) - 1), <<s>> \o overlap_chunk,
                              overlap_tokens + s_tokens)
             ELSE [chunk |-> overlap_chunk, tokens |-> overlap_tokens]

\* Mutant of Overlap: the overlap is bounded by max_tokens, not overlap_tokens.
RECURSIVE OverlapFromUpToMax(_, _, _)
OverlapFromUpToMax(cur, overlap_chunk, overlap_tokens) ==
    IF cur = <<>> THEN [chunk |-> overlap_chunk, tokens |-> overlap_tokens]
    ELSE LET s == cur[Len(cur)]
             s_tokens == SentTokens(s)
         IN  IF overlap_tokens + s_tokens <= config.max_tokens
             THEN OverlapFromUpToMax(SubSeq(cur, 1, Len(cur) - 1), <<s>> \o overlap_chunk,
                                     overlap_tokens + s_tokens)
             ELSE [chunk |-> overlap_chunk, tokens |-> overlap_tokens]

OverlapUpToMax(cur) == OverlapFromUpToMax(cur, <<>>, 0)

Overlap(cur) == OverlapFrom(cur, <<>>, 0)

\* Mutant of HardCutoff: the tokens of the new sentence are not counted.
HardCutoffNoSentence(i) ==
    current_tokens > config.max_tokens /\ current_chunk # <<>>

\* The test of the hard cutoff, before sentence i (1-based) is added.
HardCutoff(i) ==
    current_tokens + SentTokens(i) > config.max_tokens /\ current_chunk # <<>>

\* remaining_tokens: the tokens of sentences[sent_idx + 1:sent_idx + 5].
LookaheadWidth == 4

RemainingTokens(i) ==
    SumSeq([k \in 1..(Min2(i + LookaheadWidth, Len(sentences)) - i) |-> SentTokens(i + k)])

\* Mutant of SoftCutoff: the lookahead is not looked at.
SoftCutoffNoLookahead(i, tokens) ==
    /\ tokens >= config.min_tokens
    /\ is_good_break_point(i - 1, sentences, structures)

\* The test of the soft cutoff, after sentence i (1-based) was added.
SoftCutoff(i, tokens) ==
    /\ tokens >= config.min_tokens
    /\ is_good_break_point(i - 1, sentences, structures)
    /\ ~ (2 * RemainingTokens(i) < config.min_tokens)

\* Mutant of AfterHard: chunk_index is not incremented after a hard cutoff.
AfterHardSameIndex(i) ==
    IF HardCutoff(i)
    THEN LET ov == Overlap(current_chunk)
         IN  [chunks |-> Append(chunks, WindowChunk(current_chunk, chunk_index, current_start_char)),
              windows |-> Append(windows, current_chunk),
              chunk_index |-> chunk_index,
              current_chunk |-> IF config.overlap_tokens > 0 THEN ov.chunk ELSE <<>>,
              current_tokens |-> IF config.overlap_tokens > 0 THEN ov.tokens ELSE 0,
              current_start_char |->
                  IF config.overlap_tokens > 0
                  THEN IF ov.chunk # <<>> THEN sentences[ov.chunk[1]].start
                       ELSE current_start_char
                  ELSE sentences[i].start]
    ELSE [chunks |-> chunks, windows |-> windows, chunk_index |-> chunk_index,
          current_chunk |-> current_chunk, current_tokens |-> current_tokens,
          current_start_char |-> current_start_char]

\* The loop state after the hard-cutoff block of the iteration for sentence i.
AfterHard(i) ==
    IF HardCutoff(i)
    THEN LET ov == Overlap(current_chunk)
         IN  [chunks |-> Append(chunks, WindowChunk(current_chunk, chunk_index, current_start_char)),
              windows |-> Append(windows, current_chunk),
              chunk_index |-> chunk_index + 1,
              current_chunk |-> IF config.overlap_tokens > 0 THEN ov.chunk ELSE <<>>,
              current_tokens |-> IF config.overlap_tokens > 0 THEN ov.tokens ELSE 0,
              current_start_char |->
                  IF config.overlap_tokens > 0
                  THEN IF ov.chunk # <<>> THEN sentences[ov.chunk[1]].start
                       ELSE current_start_char
                  ELSE sentences[i].start]
    ELSE [chunks |-> chunks, windows |-> windows, chunk_index |-> chunk_index,
          current_chunk |-> current_chunk, current_tokens |-> current_tokens,
          current_start_char |-> current_start_char]

\* The loop state after the whole iteration for sentence i.
AfterIteration(i) ==
    LET h == AfterHard(i)
        cur == Append(h.current_chunk, i)
        tokens == h.current_tokens + SentTokens(i)
        last == ~ (i - 1 < Len(sentences) - 1)
        ov == Overlap(cur)
    IN  IF SoftCutoff(i, tokens)
        THEN [chunks |-> Append(h.chunks, WindowChunk(cur, h.chunk_index, h.current_start_char)),
              windows |-> Append(h.windows, cur),
              chunk_index |-> h.chunk_index + 1,
              current_chunk |->
                  IF config.overlap_tokens > 0 /\ ~last THEN ov.chunk ELSE <<>>,
              current_tokens |->
                  IF config.overlap_tokens > 0 /\ ~last THEN ov.tokens ELSE 0,
              current_start_char |->
                  IF config.overlap_tokens > 0 /\ ~last
                  THEN IF ov.chunk # <<>> THEN sentences[ov.chunk[1]].start
                       ELSE h.current_start_char
                  ELSE IF ~last THEN sentences[i + 1].start
                       ELSE h.current_start_char]
        ELSE [h EXCEPT !.current_chunk = cur, !.current_tokens = tokens]

-----------------------------------------------------------------------------
(* _add_chunk_hierarchy                                                    *)

\* A section with more than this many chunks gets a parent chunk.
ParentThreshold == 3
\* The parent is built from this many first chunks, each cut to ParentCut characters.
ParentParts == 3
ParentCut == 500

\* if chunk.section_title: neither None nor the empty string
HasTitle(c) == c.section_title # None /\ c.section_title[1] # <<>>

\* section_chunks, a dict in insertion order: a sequence of
\* [title, members], members being positions in cs.
AddToGroup(groups, title, k) ==
    IF \E g \in DOMAIN groups : groups[g].title = title
    THEN [g \in DOMAIN groups |->
            IF groups[g].title = title
            THEN [groups[g] EXCEPT !.members = Append(@, k)]
            ELSE groups[g]]
    ELSE Append(groups, [title |-> title, members |-> <<k>>])

RECURSIVE GroupFrom(_, _, _, _)
GroupFrom(cs, k, groups, current_section) ==
    IF k > Len(cs) THEN groups
    ELSE IF HasTitle(cs[k])
         THEN GroupFrom(cs, k + 1, AddToGroup(groups, cs[k].section_title[1], k),
                        cs[k].section_title)
         ELSE IF current_section # None
              THEN GroupFrom(cs, k + 1, AddToGroup(groups, current_section[1], k),
                             current_section)
              ELSE GroupFrom(cs, k + 1, groups, current_section)

SectionGroups(cs) == GroupFrom(cs, 1, <<>>, None)

\* The parent chunk of a section.
ParentChunk(cs, group, parent_chunk_id) ==
    LET list == [k \in DOMAIN group.members |-> cs[group.members[k]]]
        parent_text == JoinSpace([k \in 1..Min2(ParentParts, Len(list)) |->
                                     Take(list[k].content, ParentCut)])
    IN  TextChunk(Cat(parent_text, << <<".", 3>> >>), parent_chunk_id,
                  count_tokens(parent_text), list[1].start_char,
                  list[Len(list)].end_char, None, None, Some(group.title), 0,
                  [is_parent |-> TRUE, child_count |-> Len(list)])

\* child.parent_chunk_id = parent_chunk_id; child.chunk_level = 1
AsChild(c, parent_chunk_id) ==
    [c EXCEPT !.parent_chunk_id = Some(parent_chunk_id), !.chunk_level = 1]

\* Mutant of HierFrom: a section of ParentThreshold chunks gets a parent too.
RECURSIVE HierFromAtLeast(_, _, _, _)
HierFromAtLeast(cs, groups, g, parent_chunk_id) ==
    IF g > Len(groups) THEN <<>>
    ELSE LET members == groups[g].members
         IN  IF Len(members) >= ParentThreshold
             THEN <<ParentChunk(cs, groups[g], parent_chunk_id)>>
                  \o [k \in DOMAIN members |-> AsChild(cs[members[k]], parent_chunk_id)]
                  \o HierFromAtLeast(cs, groups, g + 1, parent_chunk_id + 1)
             ELSE [k \in DOMAIN members |-> cs[members[k]]]
                  \o HierFromAtLeast(cs, groups, g + 1, parent_chunk_id)

\* The loop over section_chunks.items(), from group g on.
RECURSIVE HierFrom(_, _, _, _)
HierFrom(cs, groups, g, parent_chunk_id) ==
    IF g > Len(groups) THEN <<>>
    ELSE LET members == groups[g].members
         IN  IF Len(members) > ParentThreshold
             THEN <<ParentChunk(cs, groups[g], parent_chunk_id)>>
                  \o [k \in DOMAIN members |-> AsChild(cs[members[k]], parent_chunk_id)]
                  \o HierFrom(cs, groups, g + 1, parent_chunk_id + 1)
             ELSE [k \in DOMAIN members |-> cs[members[k]]]
                  \o HierFrom(cs, groups, g + 1, parent_chunk_id)

\* The positions of cs that were put into some section.
Grouped(groups) == UNION {Range(groups[g].members) : g \in DOMAIN groups}

\* for chunk in chunks: if chunk not in hierarchical_chunks: append.  A chunk
\* of a section is in the list itself; any other chunk is compared by value
\* (the dataclass __eq__).
RECURSIVE AddUnsectioned(_, _, _, _)
AddUnsectioned(cs, k, grouped, hierarchical) ==
    IF k > Len(cs) THEN hierarchical
    ELSE IF k \in grouped \/ \E j \in DOMAIN hierarchical : hierarchical[j] = cs[k]
         THEN AddUnsectioned(cs, k + 1, grouped, hierarchical)
         ELSE AddUnsectioned(cs, k + 1, grouped, Append(hierarchical, cs[k]))

add_chunk_hierarchy(cs, structs) ==
    LET groups == SectionGroups(cs)
    IN  AddUnsectioned(cs, 1, Grouped(groups), HierFrom(cs, groups, 1, 0))

-----------------------------------------------------------------------------
(* _deduplicate_chunks                                                     *)

RECURSIVE DedupFrom(_, _, _, _)
DedupFrom(cs, k, unique_chunks, seen_hashes) ==
    IF k > Len(cs) THEN unique_chunks
    ELSE IF cs[k].chunk_hash \notin seen_hashes
         THEN DedupFrom(cs, k + 1, Append(unique_chunks, cs[k]),
                        seen_hashes \cup {cs[k].chunk_hash})
         ELSE DedupFrom(cs, k + 1, unique_chunks, seen_hashes)

\* Mutant of deduplicate_chunks: the hash of a kept chunk is not remembered.
RECURSIVE DedupFromNoAdd(_, _, _, _)
DedupFromNoAdd(cs, k, unique_chunks, seen_hashes) ==
    IF k > Len(cs) THEN unique_chunks
    ELSE IF cs[k].chunk_hash \notin seen_hashes
         THEN DedupFromNoAdd(cs, k + 1, Append(unique_chunks, cs[k]), seen_hashes)
         ELSE DedupFromNoAdd(cs, k + 1, unique_chunks, seen_hashes)

DedupNoAdd(cs) == DedupFromNoAdd(cs, 1, <<>>, {})

\* Mutant of deduplicate_chunks: a duplicate is removed from the list being
\* iterated, so the chunk after it is passed over unexamined.
RECURSIVE DedupFromSkip(_, _, _, _)
DedupFromSkip(cs, k, unique_chunks, seen_hashes) ==
    IF k > Len(cs) THEN unique_chunks
    ELSE IF cs[k].chunk_hash \notin seen_hashes
         THEN DedupFromSkip(cs, k + 1, Append(unique_chunks, cs[k]),
                            seen_hashes \cup {cs[k].chunk_hash})
         ELSE IF k < Len(cs)
              THEN DedupFromSkip(cs, k + 2, Append(unique_chunks, cs[k + 1]), seen_hashes)
              ELSE unique_chunks

DedupSkip(cs) == DedupFromSkip(cs, 1, <<>>, {})

deduplicate_chunks(cs) == DedupFrom(cs, 1, <<>>, {})

-----------------------------------------------------------------------------
(* merge_small_chunks                                                      *)

\* '\n\n', the separator of merged contents
BlankLine == << <<"\n", 2>> >>

\* current_merge with chunk merged into it (merge with previous).
MergeWithPrevious(current_merge, chunk) ==
    [current_merge EXCEPT
        !.content = Cat(Cat(@, BlankLine), chunk.content),
        !.token_count = @ + chunk.token_count,
        !.end_char = chunk.end_char,
        !.end_page = chunk.end_page]

\* chunk with current_merge merged into it (merge with current).
MergeWithCurrent(current_merge, chunk) ==
    [chunk EXCEPT
        !.content = Cat(Cat(current_merge.content, BlankLine), @),
        !.token_count = @ + current_merge.token_count,
        !.start_char = current_merge.start_char,
        !.start_page = current_merge.start_page]

\* Mutant of MergeFrom: the chunk being merged when the list ends is not
\* appended.
RECURSIVE MergeFromNoRest(_, _, _, _)
MergeFromNoRest(cs, k, merged_chunks, current_merge) ==
    IF k > Len(cs) THEN merged_chunks
    ELSE LET chunk == cs[k]
         IN  IF 2 * chunk.token_count < config.min_tokens
             THEN IF current_merge # None
                  THEN MergeFromNoRest(cs, k + 1, merged_chunks,
                                       Some(MergeWithPrevious(current_merge[1], chunk)))
                  ELSE MergeFromNoRest(cs, k + 1, merged_chunks, Some(chunk))
             ELSE IF current_merge # None
                  THEN IF current_merge[1].token_count < config.min_tokens
                       THEN MergeFromNoRest(cs, k + 1,
                                Append(merged_chunks, MergeWithCurrent(current_merge[1], chunk)),
                                None)
                       ELSE MergeFromNoRest(cs, k + 1,
                                merged_chunks \o <<current_merge[1], chunk>>, None)
                  ELSE MergeFromNoRest(cs, k + 1, Append(merged_chunks, chunk), None)

\* Mutant of MergeFrom: a chunk that follows a small one is appended as it
\* is whenever the small one is not merged into it, the small one never.
RECURSIVE MergeFromSmallAlone(_, _, _, _)
MergeFromSmallAlone(cs, k, merged_chunks, current_merge) ==
    IF k > Len(cs)
    THEN IF current_merge # None THEN Append(merged_chunks, current_merge[1])
         ELSE merged_chunks
    ELSE LET chunk == cs[k]
         IN  IF 2 * chunk.token_count < config.min_tokens
             THEN IF current_merge # None
                  THEN MergeFromSmallAlone(cs, k + 1, merged_chunks,
                                           Some(MergeWithPrevious(current_merge[1], chunk)))
                  ELSE MergeFromSmallAlone(cs, k + 1, merged_chunks, Some(chunk))
             ELSE IF current_merge # None
                  THEN IF 2 * current_merge[1].token_count < config.min_tokens
                       THEN MergeFromSmallAlone(cs, k + 1,
                                merged_chunks \o <<current_merge[1], chunk>>, None)
                       ELSE MergeFromSmallAlone(cs, k + 1,
                                Append(merged_chunks, MergeWithCurrent(current_merge[1], chunk)),
                                None)
                  ELSE MergeFromSmallAlone(cs, k + 1, Append(merged_chunks, chunk), None)

\* The loop over the chunks from position k on, and the step after it.
\* chunk.token_count < min_tokens / 2 is a comparison with a float; it is
\* 2 * token_count < min_tokens.
RECURSIVE MergeFrom(_, _, _, _)
MergeFrom(cs, k, merged_chunks, current_merge) ==
    IF k > Len(cs)
    THEN IF current_merge # None THEN Append(merged_chunks, current_merge[1])
         ELSE merged_chunks
    ELSE LET chunk == cs[k]
         IN  IF 2 * chunk.token_count < config.min_tokens
             THEN IF current_merge # None
                  THEN MergeFrom(cs, k + 1, merged_chunks,
                                 Some(MergeWithPrevious(current_merge[1], chunk)))
                  ELSE MergeFrom(cs, k + 1, merged_chunks, Some(chunk))
             ELSE IF current_merge # None
                  THEN IF current_merge[1].token_count < config.min_tokens
                       THEN MergeFrom(cs, k + 1,
                                Append(merged_chunks, MergeWithCurrent(current_merge[1], chunk)),
                                None)
                       ELSE MergeFrom(cs, k + 1,
                                merged_chunks \o <<current_merge[1], chunk>>, None)
                  ELSE MergeFrom(cs, k + 1, Append(merged_chunks, chunk), None)

merge_small_chunks(cs) == MergeFrom(cs, 1, <<>>, None)

-----------------------------------------------------------------------------
(* Inputs                                                                  *)

\* The texts are made of at most MaxBlocks blocks, and the token settings of
\* a configuration are at most MaxTokens.
MaxBlocks == 3
MaxTokens == 3

Run(c, n) == << <<c, n>> >>

\* "aaaaa\na. ": a title line and a sentence, 3 tokens
BlockTitle == Run("a", 5) \o Run("\n", 1) \o Run("a", 1) \o Run(".", 1) \o Run(" ", 1)
\* "a. ": 2 tokens
BlockSentence == Run("a", 1) \o Run(".", 1) \o Run(" ", 1)
\* ". ": 1 token
BlockDot == Run(".", 1) \o Run(" ", 1)

Blocks == {BlockTitle, BlockSentence, BlockDot}

RECURSIVE CatAll(_)
CatAll(parts) == IF parts = <<>> THEN <<>> ELSE Cat(Head(parts), CatAll(Tail(parts)))

BlockTexts == {CatAll(bs) : bs \in UNION {[1..n -> Blocks] : n \in 0..MaxBlocks}}

\* "  ": white space only
TextBlank == Run(" ", 2)

\* Two sections of four sentences each, the second repeating the first but
\* for its last sentence; the second starts at character 51:
\* "aaaaa\nbbbbb\na. a. a. a.<27 spaces>\naaaaa\nbbbbb\na. a. a. b."
TwoHeadings == Run("a", 5) \o Run("\n", 1) \o Run("b", 5) \o Run("\n", 1)
TextTwoSections ==
    CatAll(<<TwoHeadings, BlockSentence, BlockSentence, BlockSentence,
             Run("a", 1), Run(".", 1), Run(" ", 27), Run("\n", 1),
             TwoHeadings, BlockSentence, BlockSentence, BlockSentence,
             Run("b", 1), Run(".", 1)>>)

\* One section of four sentences, the third longer than ParentCut characters:
\* "aaaaa\na. a. a...a. a." with 600 letters in the third sentence
TextLongSentence ==
    CatAll(<<BlockTitle, BlockSentence, Run("a", 600), Run(".", 1), Run(" ", 1),
             Run("a", 1), Run(".", 1)>>)

\* "\n\n ": white space only, of several lines
TextBlankLines == Run("\n", 2) \o Run(" ", 1)

Texts == BlockTexts \cup {TextBlank, TextBlankLines, TextTwoSections, TextLongSentence}

\* The texts of two calls on one chunker: "a. a. " and "a. . ", which have
\* the sentence "a." in common, the first of them twice.
CallTexts == {CatAll(<<BlockSentence, BlockSentence>>), CatAll(<<BlockSentence, BlockDot>>)}

\* ChunkConfig(): the defaults of the dataclass.
DefaultConfig ==
    [min_tokens |-> 1000, max_tokens |-> 2000, overlap_tokens |-> 200,
     detect_structure |-> TRUE, enable_deduplication |-> TRUE]

\* ChunkConfig: the dataclass takes any values; nothing checks them.
Configs ==
    [min_tokens : 1..MaxTokens,
     max_tokens : 1..MaxTokens,
     overlap_tokens : 0..MaxTokens,
     detect_structure : BOOLEAN,
     enable_deduplication : BOOLEAN]

-----------------------------------------------------------------------------
(* The chunker: SemanticChunker(config), then chunk_text(text)             *)

Init ==
    /\ config \in Configs
    /\ text \in Texts
    /\ page_breaks = None
    /\ pc = "start"
    /\ structures = <<>>
    /\ sentences = <<>>
    /\ sent_idx = 0
    /\ current_chunk = <<>>
    /\ current_tokens = 0
    /\ current_start_char = 0
    /\ chunk_index = 0
    /\ chunks = <<>>
    /\ windows = <<>>
    /\ hier = <<>>
    /\ result = <<>>
    /\ error = None
    /\ chunk_hashes = {}
    /\ other = None
    /\ special_blocks = <<>>
    /\ document = None
    /\ ocr_results = <<>>
    /\ db_chunks = <<>>

\* chunk_text up to the loop of _create_sliding_window_chunks: the structure
\* is extracted and the text is split into sentences.
Begin ==
    /\ pc = "start"
    /\ structures' = IF config.detect_structure THEN extract_structure(text) ELSE <<>>
    /\ sentences' = split_into_sentences(text)
    /\ pc' = "loop"
    /\ UNCHANGED <<config, text, page_breaks, sent_idx, current_chunk, current_tokens,
                   current_start_char, chunk_index, chunks, windows, hier, result>>
    /\ UNCHANGED <<error, chunk_hashes, other>>
    /\ special_blocks' = detect_special_blocks(text)
    /\ UNCHANGED <<document, ocr_results, db_chunks>>

\* One iteration of the loop over the sentences.
LoopBody ==
    /\ pc = "loop"
    /\ sent_idx < Len(sentences)
    /\ LET a == AfterIteration(sent_idx + 1)
       IN  /\ chunks' = a.chunks
           /\ windows' = a.windows
           /\ chunk_index' = a.chunk_index
           /\ current_chunk' = a.current_chunk
           /\ current_tokens' = a.current_tokens
           /\ current_start_char' = a.current_start_char
    /\ sent_idx' = sent_idx + 1
    /\ UNCHANGED <<config, text, page_breaks, pc, structures, sentences, hier, result>>
    /\ UNCHANGED <<error, chunk_hashes, other>>
    /\ UNCHANGED <<special_blocks, document, ocr_results, db_chunks>>

\* Mutant of Flush: the window that remains after the loop is not made a chunk.
FlushNothing ==
    /\ pc = "loop"
    /\ sent_idx = Len(sentences)
    /\ pc' = "hierarchy"
    /\ UNCHANGED <<config, text, page_breaks, structures, sentences, sent_idx,
                   current_chunk, current_tokens, current_start_char, chunk_index,
                   chunks, windows, hier, result>>
    /\ UNCHANGED <<error, chunk_hashes, other>>
    /\ UNCHANGED <<special_blocks, document, ocr_results, db_chunks>>

\* After the loop: the remaining window becomes the last chunk.
Flush ==
    /\ pc = "loop"
    /\ sent_idx = Len(sentences)
    /\ IF current_chunk # <<>>
       THEN /\ chunks' = Append(chunks, WindowChunk(current_chunk, chunk_index,
                                                     current_start_char))
            /\ windows' = Append(windows, current_chunk)
       ELSE UNCHANGED <<chunks, windows>>
    /\ pc' = "hierarchy"
    /\ UNCHANGED <<config, text, page_breaks, structures, sentences, sent_idx,
                   current_chunk, current_tokens, current_start_char, chunk_index,
                   hier, result>>
    /\ UNCHANGED <<error, chunk_hashes, other>>
    /\ UNCHANGED <<special_blocks, document, ocr_results, db_chunks>>

\* chunk_text: if structures: chunks = self._add_chunk_hierarchy(chunks, structures)
Hierarchy ==
    /\ pc = "hierarchy"
    /\ hier' = IF structures # <<>> THEN add_chunk_hierarchy(chunks, structures) ELSE chunks
    /\ pc' = "dedup"
    /\ UNCHANGED <<config, text, page_breaks, structures, sentences, sent_idx,
                   current_chunk, current_tokens, current_start_char, chunk_index,
                   chunks, windows, result>>
    /\ UNCHANGED <<error, chunk_hashes, other>>
    /\ UNCHANGED <<special_blocks, document, ocr_results, db_chunks>>

\* Mutant of Deduplicate: the hashes seen are kept in self.chunk_hashes.
DeduplicateShared ==
    /\ pc = "dedup"
    /\ result' = IF config.enable_deduplication
                 THEN DedupFrom(hier, 1, <<>>, chunk_hashes)
                 ELSE hier
    /\ chunk_hashes' = IF config.enable_deduplication
                       THEN chunk_hashes \cup {hier[k].chunk_hash : k \in DOMAIN hier}
                       ELSE chunk_hashes
    /\ pc' = "done"
    /\ UNCHANGED <<config, text, page_breaks, structures, sentences, sent_idx,
                   current_chunk, current_tokens, current_start_char, chunk_index,
                   chunks, windows, hier, error, other>>
    /\ UNCHANGED <<special_blocks, document, ocr_results, db_chunks>>

\* chunk_text: if enable_deduplication: chunks = self._deduplicate_chunks(chunks); return
Deduplicate ==
    /\ pc = "dedup"
    /\ result' = IF config.enable_deduplication THEN deduplicate_chunks(hier) ELSE hier
    /\ pc' = "done"
    /\ UNCHANGED <<config, text, page_breaks, structures, sentences, sent_idx,
                   current_chunk, current_tokens, current_start_char, chunk_index,
                   chunks, windows, hier>>
    /\ UNCHANGED <<error, chunk_hashes, other>>
    /\ UNCHANGED <<special_blocks, document, ocr_results, db_chunks>>

\* The places of chunk_text at which count_tokens is called next: the head of
\* a loop iteration, _create_chunk of the final flush, and the parent chunk
\* of a section of more than ParentThreshold chunks.
CallsTokenizer ==
    \/ pc = "loop" /\ sent_idx < Len(sentences)
    \/ pc = "loop" /\ sent_idx = Len(sentences) /\ current_chunk # <<>>
    \/ /\ pc = "hierarchy" /\ structures # <<>>
       /\ \E g \in DOMAIN SectionGroups(chunks) :
              Len(SectionGroups(chunks)[g].members) > ParentThreshold

\* Mutant of TokenizerFailure: the loop catches the tokenizer's error and
\* goes on with the next sentence.
TokenizerFailureSkipped ==
    /\ pc = "loop" /\ sent_idx < Len(sentences)
    /\ error' = Some("TokenizerError")
    /\ sent_idx' = sent_idx + 1
    /\ UNCHANGED <<config, text, page_breaks, pc, structures, sentences,
                   current_chunk, current_tokens, current_start_char, chunk_index,
                   chunks, windows, hier, result, chunk_hashes, other>>
    /\ UNCHANGED <<special_blocks, document, ocr_results, db_chunks>>

\* self.tokenizer.encode raises in count_tokens: neither count_tokens nor
\* chunk_text nor the functions between them handle an exception, so it
\* leaves chunk_text and nothing is returned.
TokenizerFailure ==
    /\ CallsTokenizer
    /\ error' = Some("TokenizerError")
    /\ pc' = "raised"
    /\ UNCHANGED <<config, text, page_breaks, structures, sentences, sent_idx,
                   current_chunk, current_tokens, current_start_char, chunk_index,
                   chunks, windows, hier, result, chunk_hashes, other>>
    /\ UNCHANGED <<special_blocks, document, ocr_results, db_chunks>>

Next == Begin \/ LoopBody \/ Flush \/ Hierarchy \/ Deduplicate \/ TokenizerFailure

Spec == Init /\ [][Next]_vars

-----------------------------------------------------------------------------
(* _split_into_sentences called on a text                                  *)

\* The texts have at most MaxChars characters.
MaxChars == 5

SplitChars == {"a", ".", "!", " ", "\n"}

\* Every string of at most MaxChars characters of SplitChars.
SplitTexts ==
    {CatAll([k \in DOMAIN cs |-> Run(cs[k], 1)]) :
        cs \in UNION {[1..n -> SplitChars] : n \in 0..MaxChars}}

InitSplit ==
    /\ config = DefaultConfig
    /\ text \in SplitTexts
    /\ page_breaks = None
    /\ pc = "call_split"
    /\ structures = <<>>
    /\ sentences = <<>>
    /\ sent_idx = 0
    /\ current_chunk = <<>>
    /\ current_tokens = 0
    /\ current_start_char = 0
    /\ chunk_index = 0
    /\ chunks = <<>>
    /\ windows = <<>>
    /\ hier = <<>>
    /\ result = <<>>
    /\ error = None
    /\ chunk_hashes = {}
    /\ other = None
    /\ special_blocks = <<>>
    /\ document = None
    /\ ocr_results = <<>>
    /\ db_chunks = <<>>

\* sentences = self._split_into_sentences(text)
CallSplitIntoSentences ==
    /\ pc = "call_split"
    /\ sentences' = split_into_sentences(text)
    /\ pc' = "returned"
    /\ UNCHANGED <<config, text, page_breaks, structures, sent_idx,
                   current_chunk, current_tokens, current_start_char, chunk_index,
                   chunks, windows, hier, result, error, chunk_hashes, other>>
    /\ UNCHANGED <<special_blocks, document, ocr_results, db_chunks>>

NextSplit == CallSplitIntoSentences

SpecSplit == InitSplit /\ [][NextSplit]_vars

-----------------------------------------------------------------------------
(* _add_chunk_hierarchy called on a list of chunks                         *)

\* The lists have at most MaxChunks chunks.
MaxChunks == 6

\* The section titles of the chunks: None, the empty title (group 1 of a
\* chapter or section heading with nothing after its number), and two titles.
TitleA == Run("a", 5)
TitleB == Run("b", 5)
HierTitles == {None, Some(<<>>), Some(TitleA), Some(TitleB)}

\* The k-th chunk of a list, as _create_chunk makes it: chunk_index k - 1, a
\* content and a range of its own, the section title given.
InputChunk(k, title) ==
    TextChunk(Run("a", k) \o Run(".", 1), k - 1, 2, 10 * (k - 1), 10 * k,
              None, None, title, 0,
              [has_code |-> FALSE, has_list |-> FALSE, has_table |-> FALSE])

ChunkList(titles) == [k \in DOMAIN titles |-> InputChunk(k, titles[k])]

\* Two sections of four chunks each.
TwoLargeSections ==
    ChunkList([k \in 1..8 |-> IF k <= 4 THEN Some(TitleA) ELSE Some(TitleB)])

ChunkLists ==
    {ChunkList(titles) : titles \in UNION {[1..n -> HierTitles] : n \in 0..MaxChunks}}
        \cup {TwoLargeSections}

InitHier ==
    /\ config = DefaultConfig
    /\ text = <<>>
    /\ page_breaks = None
    /\ pc = "call_hierarchy"
    /\ structures = <<>>
    /\ sentences = <<>>
    /\ sent_idx = 0
    /\ current_chunk = <<>>
    /\ current_tokens = 0
    /\ current_start_char = 0
    /\ chunk_index = 0
    /\ chunks \in ChunkLists
    /\ windows = <<>>
    /\ hier = <<>>
    /\ result = <<>>
    /\ error = None
    /\ chunk_hashes = {}
    /\ other = None
    /\ special_blocks = <<>>
    /\ document = None
    /\ ocr_results = <<>>
    /\ db_chunks = <<>>

\* self._add_chunk_hierarchy(chunks, structures); chunks keeps the list as
\* it was passed (the function changes its children in place), hier is the
\* list returned.
CallAddChunkHierarchy ==
    /\ pc = "call_hierarchy"
    /\ hier' = add_chunk_hierarchy(chunks, structures)
    /\ pc' = "returned"
    /\ UNCHANGED <<config, text, page_breaks, structures, sentences, sent_idx,
                   current_chunk, current_tokens, current_start_char, chunk_index,
                   chunks, windows, result, error, chunk_hashes, other>>
    /\ UNCHANGED <<special_blocks, document, ocr_results, db_chunks>>

NextHier == CallAddChunkHierarchy

SpecHier == InitHier /\ [][NextHier]_vars

-----------------------------------------------------------------------------
(* merge_small_chunks called on a list of chunks                           *)

\* The lists have at most MaxMerge chunks, of 1..MaxTokens tokens each, and
\* min_tokens is at most 2 * MaxTokens.
MaxMerge == 5

\* A content of n tokens that begins with a word of k letters: "aaa.a" for
\* k = 3, n = 3.
MergeContent(k, n) ==
    [i \in 1..n |-> IF i = 1 THEN <<"a", k>>
                    ELSE IF i % 2 = 0 THEN <<".", 1>> ELSE <<"a", 1>>]

\* The k-th chunk of a list, as _create_chunk makes it, with n tokens.
MergeChunk(k, n) ==
    TextChunk(MergeContent(k, n), k - 1, count_tokens(MergeContent(k, n)),
              10 * (k - 1), 10 * k, None, None, None, 0,
              [has_code |-> FALSE, has_list |-> FALSE, has_table |-> FALSE])

MergeLists ==
    {[k \in DOMAIN ns |-> MergeChunk(k, ns[k])] :
        ns \in UNION {[1..n -> 1..MaxTokens] : n \in 0..MaxMerge}}

InitMerge ==
    /\ config \in {[DefaultConfig EXCEPT !.min_tokens = m] : m \in 1..(2 * MaxTokens)}
    /\ text = <<>>
    /\ page_breaks = None
    /\ pc = "call_merge"
    /\ structures = <<>>
    /\ sentences = <<>>
    /\ sent_idx = 0
    /\ current_chunk = <<>>
    /\ current_tokens = 0
    /\ current_start_char = 0
    /\ chunk_index = 0
    /\ chunks \in MergeLists
    /\ windows = <<>>
    /\ hier = <<>>
    /\ result = <<>>
    /\ error = None
    /\ chunk_hashes = {}
    /\ other = None
    /\ special_blocks = <<>>
    /\ document = None
    /\ ocr_results = <<>>
    /\ db_chunks = <<>>

\* chunker.merge_small_chunks(chunks); chunks keeps the list as it was passed
\* (the function changes the chunks it merges in place), result is the list
\* returned.
CallMergeSmallChunks ==
    /\ pc = "call_merge"
    /\ result' = merge_small_chunks(chunks)
    /\ pc' = "returned"
    /\ UNCHANGED <<config, text, page_breaks, structures, sentences, sent_idx,
                   current_chunk, current_tokens, current_start_char, chunk_index,
                   chunks, windows, hier, error, chunk_hashes, other>>
    /\ UNCHANGED <<special_blocks, document, ocr_results, db_chunks>>

NextMerge == CallMergeSmallChunks

SpecMerge == InitMerge /\ [][NextMerge]_vars

-----------------------------------------------------------------------------
(* Two calls of chunk_text on one chunker                                  *)

\* The frame of a call of chunk_text: its arguments, its locals, its
\* position and its outcome.  self.config and self.chunk_hashes belong to the
\* chunker and are common to its calls.
Frame ==
    [text |-> text, page_breaks |-> page_breaks, pc |-> pc,
     structures |-> structures, sentences |-> sentences, sent_idx |-> sent_idx,
     current_chunk |-> current_chunk, current_tokens |-> current_tokens,
     current_start_char |-> current_start_char, chunk_index |-> chunk_index,
     chunks |-> chunks, windows |-> windows, hier |-> hier, result |-> result,
     error |-> error, special_blocks |-> special_blocks]

\* The frame of a call that has not taken a step.
NewFrame(t) ==
    [text |-> t, page_breaks |-> None, pc |-> "start",
     structures |-> <<>>, sentences |-> <<>>, sent_idx |-> 0,
     current_chunk |-> <<>>, current_tokens |-> 0,
     current_start_char |-> 0, chunk_index |-> 0,
     chunks |-> <<>>, windows |-> <<>>, hier |-> <<>>, result |-> <<>>,
     error |-> None, special_blocks |-> <<>>]

InitCalls ==
    /\ config \in Configs
    /\ text \in CallTexts
    /\ page_breaks = None
    /\ pc = "start"
    /\ structures = <<>>
    /\ sentences = <<>>
    /\ sent_idx = 0
    /\ current_chunk = <<>>
    /\ current_tokens = 0
    /\ current_start_char = 0
    /\ chunk_index = 0
    /\ chunks = <<>>
    /\ windows = <<>>
    /\ hier = <<>>
    /\ result = <<>>
    /\ error = None
    /\ chunk_hashes = {}
    /\ other \in {Some(NewFrame(t)) : t \in CallTexts}
    /\ special_blocks = <<>>
    /\ document = None
    /\ ocr_results = <<>>
    /\ db_chunks = <<>>

\* The other call runs on: the two calls are taken one after the other, or
\* their steps interleave (two threads that call the same chunker).
Switch ==
    /\ other # None
    /\ other' = Some(Frame)
    /\ text' = other[1].text
    /\ page_breaks' = other[1].page_breaks
    /\ pc' = other[1].pc
    /\ structures' = other[1].structures
    /\ sentences' = other[1].sentences
    /\ sent_idx' = other[1].sent_idx
    /\ current_chunk' = other[1].current_chunk
    /\ current_tokens' = other[1].current_tokens
    /\ current_start_char' = other[1].current_start_char
    /\ chunk_index' = other[1].chunk_index
    /\ chunks' = other[1].chunks
    /\ windows' = other[1].windows
    /\ hier' = other[1].hier
    /\ result' = other[1].result
    /\ error' = other[1].error
    /\ UNCHANGED <<config, chunk_hashes>>
    /\ special_blocks' = other[1].special_blocks
    /\ UNCHANGED <<document, ocr_results, db_chunks>>

NextCalls ==
    Begin \/ LoopBody \/ Flush \/ Hierarchy \/ Deduplicate \/ TokenizerFailure \/ Switch

SpecCalls == InitCalls /\ [][NextCalls]_vars

-----------------------------------------------------------------------------
(* chunk_text called with page_breaks                                      *)

\* The page_breaks argument: one page break or two, in order or not, at the
\* ends of the first and the second sentence of the shortest texts.
PageBreakLists == {<<3>>, <<3, 6>>, <<6, 3>>}

InitPages ==
    /\ config \in {c \in Configs : ~c.enable_deduplication}
    /\ text \in BlockTexts
    /\ page_breaks \in PageBreakLists
    /\ pc = "start"
    /\ structures = <<>>
    /\ sentences = <<>>
    /\ sent_idx = 0
    /\ current_chunk = <<>>
    /\ current_tokens = 0
    /\ current_start_char = 0
    /\ chunk_index = 0
    /\ chunks = <<>>
    /\ windows = <<>>
    /\ hier = <<>>
    /\ result = <<>>
    /\ error = None
    /\ chunk_hashes = {}
    /\ other = None
    /\ special_blocks = <<>>
    /\ document = None
    /\ ocr_results = <<>>
    /\ db_chunks = <<>>

SpecPages == InitPages /\ [][Next]_vars

-----------------------------------------------------------------------------
(* chunk_text called on a text with code blocks, tables and lists          *)

\* The texts have at most MaxLines lines.
MaxLines == 3

\* The lines: a code fence, a table row "|a|a|", a list item "- a.", a line
\* of two sentences "a. a." and an empty line.
LineFence == Run(Backtick, 3)
LineTable == CatAll(<<Run("|", 1), Run("a", 1), Run("|", 1), Run("a", 1), Run("|", 1)>>)
LineList == CatAll(<<Run("-", 1), Run(" ", 1), Run("a", 1), Run(".", 1)>>)
LinePlain == CatAll(<<Run("a", 1), Run(".", 1), Run(" ", 1), Run("a", 1), Run(".", 1)>>)
LineKinds == {LineFence, LineTable, LineList, LinePlain, <<>>}

\* '\n'.join(ls)
RECURSIVE JoinLines(_)
JoinLines(ls) ==
    IF ls = <<>> THEN <<>>
    ELSE IF Len(ls) = 1 THEN ls[1]
    ELSE Cat(Cat(ls[1], Run("\n", 1)), JoinLines(Tail(ls)))

LineTexts == {JoinLines(ls) : ls \in UNION {[1..n -> LineKinds] : n \in 1..MaxLines}}

InitBlocks ==
    /\ config \in {c \in Configs : c.overlap_tokens = 0 /\ ~c.enable_deduplication}
    /\ text \in LineTexts
    /\ page_breaks = None
    /\ pc = "start"
    /\ structures = <<>>
    /\ sentences = <<>>
    /\ sent_idx = 0
    /\ current_chunk = <<>>
    /\ current_tokens = 0
    /\ current_start_char = 0
    /\ chunk_index = 0
    /\ chunks = <<>>
    /\ windows = <<>>
    /\ hier = <<>>
    /\ result = <<>>
    /\ error = None
    /\ chunk_hashes = {}
    /\ other = None
    /\ special_blocks = <<>>
    /\ document = None
    /\ ocr_results = <<>>
    /\ db_chunks = <<>>

SpecBlocks == InitBlocks /\ [][Next]_vars

-----------------------------------------------------------------------------
(* ChunkingService.process_document                                        *)

\* The document has at most MaxPages OCR results (pages).
MaxPages == 3

\* text = ocr_result.text_content or ""
PageText(ocr_result) ==
    IF ocr_result.text_content = None THEN <<>> ELSE ocr_result.text_content[1]

\* "\n\n".join(full_text)
RECURSIVE JoinPages(_)
JoinPages(full_text) ==
    IF full_text = <<>> THEN <<>>
    ELSE IF Len(full_text) = 1 THEN full_text[1]
    ELSE Cat(Cat(full_text[1], Run("\n", 2)), JoinPages(Tail(full_text)))

\* The loop over ocr_results: current_pos += len(text); page_breaks.append(current_pos)
PageBreaksOf(results) ==
    [k \in DOMAIN results |->
        SumSeq([j \in 1..k |-> StrLen(PageText(results[j]))])]

\* The text_content of a page: none, "a. " or "aaaaa\na. ".
PageContents == {None, Some(BlockSentence), Some(BlockTitle)}

\* The OCR results of a document, ordered by page_number.
OcrResults ==
    {[k \in DOMAIN cs |-> [page_number |-> k, text_content |-> cs[k]]] :
        cs \in UNION {[1..n -> PageContents] : n \in 0..MaxPages}}

\* The row of the document: its id and its status (the column's default).
DocumentRow == [id |-> 1, status |-> "pending"]

InitService ==
    /\ config \in Configs
    /\ text = <<>>
    /\ page_breaks = None
    /\ pc = "process"
    /\ structures = <<>>
    /\ sentences = <<>>
    /\ sent_idx = 0
    /\ current_chunk = <<>>
    /\ current_tokens = 0
    /\ current_start_char = 0
    /\ chunk_index = 0
    /\ chunks = <<>>
    /\ windows = <<>>
    /\ hier = <<>>
    /\ result = <<>>
    /\ error = None
    /\ chunk_hashes = {}
    /\ other = None
    /\ special_blocks = <<>>
    /\ document \in {None, Some(DocumentRow)}
    /\ ocr_results \in OcrResults
    /\ db_chunks = <<>>

\* process_document up to the call of chunk_text: the document and its OCR
\* results are read (ValueError if either is missing), the page texts are
\* joined and the page breaks collected, and chunk_text is called with the
\* combined text and page_breaks[:-1].
ProcessDocument ==
    /\ pc = "process"
    /\ IF document = None \/ ocr_results = <<>>
       THEN /\ error' = Some("ValueError")
            /\ pc' = "raised"
            /\ UNCHANGED <<text, page_breaks>>
       ELSE /\ text' = JoinPages([k \in DOMAIN ocr_results |-> PageText(ocr_results[k])])
            /\ page_breaks' = SubSeq(PageBreaksOf(ocr_results), 1, Len(ocr_results) - 1)
            /\ pc' = "start"
            /\ UNCHANGED error
    /\ UNCHANGED <<config, structures, sentences, sent_idx, current_chunk,
                   current_tokens, current_start_char, chunk_index, chunks, windows,
                   hier, result, chunk_hashes, other, special_blocks, document,
                   ocr_results, db_chunks>>

\* parent_map[index] after the first pass of _store_chunks: the id of the last
\* row of a parent chunk (chunk_level 0, is_parent) with that chunk_index.
ParentRows(cs, index) ==
    {k \in DOMAIN cs :
        /\ cs[k].chunk_level = 0
        /\ "is_parent" \in DOMAIN cs[k].metadata /\ cs[k].metadata.is_parent
        /\ cs[k].chunk_index = index}

\* The row _store_chunks writes for the k-th chunk (its id is k, the rows of
\* the document having been deleted), after the second pass.
DBTextChunk(cs, k, document_id) ==
    LET chunk == cs[k]
        rows == IF chunk.parent_chunk_id = None THEN {}
                ELSE ParentRows(cs, chunk.parent_chunk_id[1])
    IN  [id |-> k,
         document_id |-> document_id,
         chunk_index |-> chunk.chunk_index,
         content |-> chunk.content,
         token_count |-> chunk.token_count,
         start_page |-> chunk.start_page,
         end_page |-> chunk.end_page,
         start_char |-> chunk.start_char,
         end_char |-> chunk.end_char,
         section_title |-> chunk.section_title,
         chunk_level |-> chunk.chunk_level,
         chunk_metadata |-> chunk.metadata,
         parent_chunk_id |-> IF rows = {} THEN None
                             ELSE Some(CHOOSE k1 \in rows : \A k2 \in rows : k2 <= k1)]

\* process_document after chunk_text returned: _store_chunks writes the rows
\* and the document is marked completed.
StoreChunks ==
    /\ pc = "done"
    /\ document # None
    /\ db_chunks' = [k \in DOMAIN result |-> DBTextChunk(result, k, document[1].id)]
    /\ document' = Some([document[1] EXCEPT !.status = "completed"])
    /\ pc' = "stored"
    /\ UNCHANGED <<config, text, page_breaks, structures, sentences, sent_idx,
                   current_chunk, current_tokens, current_start_char, chunk_index,
                   chunks, windows, hier, result, error, chunk_hashes, other,
                   special_blocks, ocr_results>>

NextService ==
    \/ ProcessDocument
    \/ Begin \/ LoopBody \/ Flush \/ Hierarchy \/ Deduplicate \/ TokenizerFailure
    \/ StoreChunks

SpecService == InitService /\ [][NextService]_vars

-----------------------------------------------------------------------------
(* Notions the properties below are stated with                            *)

\* The loop of _create_sliding_window_chunks and its final flush are over.
WindowsDone == pc \in {"hierarchy", "dedup", "done"}

\* The configuration the data model asks for.
ValidConfig ==
    /\ config.min_tokens < config.max_tokens
    /\ config.overlap_tokens < config.max_tokens

\* Sum of the token counts of the sentences of a window.
WindowTokens(w) == SumSeq([k \in DOMAIN w |-> SentTokens(w[k])])

Oversized(i) == SentTokens(i) > config.max_tokens

\* Every character offset of the text lies in the range of some chunk of cs.
Covered(cs) ==
    \A p \in 0..(StrLen(text) - 1) :
        \E k \in DOMAIN cs : cs[k].start_char <= p /\ p < cs[k].end_char

IsParent(c) == "is_parent" \in DOMAIN c.metadata /\ c.metadata.is_parent

\* The sentences at the tail of window w1 that are also the head of window w2.
SharedCount(w1, w2) ==
    LET ks == {k \in 0..Min2(Len(w1), Len(w2)) :
                  SubSeq(w1, Len(w1) - k + 1, Len(w1)) = SubSeq(w2, 1, k)}
    IN  CHOOSE k \in ks : \A m \in ks : m <= k

SharedTokens(w1, w2) ==
    WindowTokens(SubSeq(w2, 1, SharedCount(w1, w2)))

\* The elements of s at the positions in P, in order.
RECURSIVE AtPositions(_, _, _)
AtPositions(s, P, k) ==
    IF k > Len(s) THEN <<>>
    ELSE (IF k \in P THEN <<s[k]>> ELSE <<>>) \o AtPositions(s, P, k + 1)

\* The positions of cs whose hash no earlier position has.
FirstOfHash(cs) ==
    {k \in DOMAIN cs : \A j \in 1..(k - 1) : cs[j].chunk_hash # cs[k].chunk_hash}

-----------------------------------------------------------------------------
(* Properties                                                              *)

\* C1: with min_tokens < max_tokens and overlap_tokens < max_tokens, every
\* chunk of the sliding window that holds no sentence of more than
\* max_tokens tokens has at most max_tokens tokens (the sum of its
\* sentences' token counts).
C1_TokenBound ==
    ValidConfig =>
        \A j \in DOMAIN windows :
            (\A k \in DOMAIN windows[j] : ~Oversized(windows[j][k]))
                => WindowTokens(windows[j]) <= config.max_tokens

\* C2 as claimed: for a text that is not empty, the ranges of the chunks
\* chunk_text returns cover every character offset from 0 to len(text), also
\* with deduplication.  It is taken here for valid configurations and texts
\* that are not white space only (for a text of white space only nothing is
\* returned, which refutes the claim at once).
C2_CoverageOfResult ==
    (pc = "done" /\ ValidConfig /\ Strip(text) # <<>>) => Covered(result)

\* C2 as amended: for a text that is not white space only, the ranges of the
\* chunks chunk_text holds before deduplication cover every character offset
\* from 0 to len(text), and so do those of the returned chunks when
\* deduplication is disabled.
C2_CoverageBeforeDedup ==
    /\ (pc \in {"dedup", "done"} /\ Strip(text) # <<>>) => Covered(hier)
    /\ (pc = "done" /\ Strip(text) # <<>> /\ ~config.enable_deduplication)
           => Covered(result)

\* C2 witness: a text was chunked into three or more chunks whose ranges
\* cover it, and deduplication then dropped a chunk together with its range.
C2_Witness ==
    /\ pc = "done"
    /\ Strip(text) # <<>>
    /\ Len(hier) >= 3
    /\ config.overlap_tokens > 0
    /\ Covered(hier)
    /\ ~Covered(result)

\* C3: in the returned list every chunk of chunk_level 1 has a
\* parent_chunk_id for which exactly one chunk of the list has chunk_level 0,
\* is_parent true and that chunk_index (taken for valid configurations).
C3_ParentExists ==
    (pc = "done" /\ ValidConfig) =>
        \A k \in DOMAIN result :
            result[k].chunk_level = 1 =>
                /\ result[k].parent_chunk_id # None
                /\ Cardinality({j \in DOMAIN result :
                       /\ result[j].chunk_level = 0
                       /\ IsParent(result[j])
                       /\ result[j].chunk_index = result[k].parent_chunk_id[1]}) = 1

\* C4: with overlap_tokens > 0, the sentences that the tail of a chunk of the
\* sliding window shares with the head of the next one have at most
\* overlap_tokens tokens in total.
C4_OverlapBound ==
    config.overlap_tokens > 0 =>
        \A j \in 1..(Len(windows) - 1) :
            SharedTokens(windows[j], windows[j + 1]) <= config.overlap_tokens

\* C4 witness: two consecutive chunks share a sentence.
C4_Witness ==
    /\ config.overlap_tokens > 0
    /\ \E j \in 1..(Len(windows) - 1) : SharedCount(windows[j], windows[j + 1]) >= 1

\* C5: the j-th chunk the sliding window emits has chunk_index j (from 0);
\* when no hierarchy is applied and nothing is deduplicated, the returned
\* chunk_index values are exactly 0..N-1 in order.
C5_IndexOrder ==
    /\ \A j \in DOMAIN chunks : chunks[j].chunk_index = j - 1
    /\ (pc = "done" /\ structures = <<>> /\ Len(result) = Len(chunks))
           => \A j \in DOMAIN result : result[j].chunk_index = j - 1

\* C5 witness: three chunks were returned with no hierarchy and no duplicate.
C5_Witness ==
    /\ pc = "done"
    /\ structures = <<>>
    /\ Len(chunks) >= 3
    /\ Len(result) = Len(chunks)

\* C6: a chunker whose configuration has min_tokens >= max_tokens or
\* overlap_tokens >= max_tokens is never constructed, so chunk_text never
\* runs with one.
C6_ConfigChecked ==
    pc # "start" => ValidConfig

\* C7: with deduplication enabled no two returned chunks have the same hash,
\* and the returned list is the list before deduplication with, for every
\* hash, all but the first chunk of that hash left out, order kept.
C7_DedupKeepsFirst ==
    (pc = "done" /\ config.enable_deduplication) =>
        /\ \A j, k \in DOMAIN result :
               result[j].chunk_hash = result[k].chunk_hash => j = k
        /\ result = AtPositions(hier, FirstOfHash(hier), 1)

\* C7 witness: deduplication dropped a chunk and kept a later one.
C7_Witness ==
    /\ pc = "done"
    /\ config.enable_deduplication
    /\ \E k \in DOMAIN hier :
           /\ k \notin FirstOfHash(hier)
           /\ \E m \in FirstOfHash(hier) : m > k

\* C8: deduplicating a deduplicated list leaves it as it is.
C8_DedupIdempotent ==
    pc \in {"dedup", "done"} =>
        deduplicate_chunks(deduplicate_chunks(hier)) = deduplicate_chunks(hier)

\* C8 witness: a list in which one hash occurs three times was deduplicated.
C8_Witness ==
    /\ pc = "done"
    /\ config.enable_deduplication
    /\ \E i, j, k \in DOMAIN hier :
           /\ i < j /\ j < k
           /\ hier[i].chunk_hash = hier[j].chunk_hash
           /\ hier[j].chunk_hash = hier[k].chunk_hash

\* C9: every returned chunk, parents included, has token_count equal to the
\* tokenizer's count of its content (taken for valid configurations).
C9_TokenCountOfContent ==
    (pc = "done" /\ ValidConfig) =>
        \A k \in DOMAIN result :
            result[k].token_count = count_tokens(result[k].content)

\* C10 as claimed: a sentence of more than max_tokens tokens is in exactly
\* one chunk of the sliding window, and that chunk's content is the sentence
\* alone, for every overlap_tokens (taken for valid configurations).
C10_OversizedAlone ==
    (WindowsDone /\ ValidConfig) =>
        \A i \in DOMAIN sentences :
            Oversized(i) =>
                /\ Cardinality({j \in DOMAIN windows : i \in Range(windows[j])}) = 1
                /\ \A j \in DOMAIN windows :
                       i \in Range(windows[j]) => chunks[j].content = sentences[i].text

\* C10 as amended: a sentence of more than max_tokens tokens, and of more
\* than overlap_tokens tokens, is in exactly one chunk of the sliding window
\* and is the last sentence of that chunk; with overlap_tokens = 0 the
\* chunk's content is the sentence alone (with overlap_tokens > 0 the chunk
\* may begin with overlap sentences).
C10_OversizedLast ==
    WindowsDone =>
        \A i \in DOMAIN sentences :
            (Oversized(i) /\ SentTokens(i) > config.overlap_tokens) =>
                /\ Cardinality({j \in DOMAIN windows : i \in Range(windows[j])}) = 1
                /\ \A j \in DOMAIN windows :
                       i \in Range(windows[j]) =>
                           /\ windows[j][Len(windows[j])] = i
                           /\ config.overlap_tokens = 0
                                  => chunks[j].content = sentences[i].text

\* C10 witness: an oversized sentence follows another sentence and is
\* followed by one, with and without overlap sentences before it.
C10_Witness ==
    /\ WindowsDone
    /\ \E i \in DOMAIN sentences :
           /\ 1 < i /\ i < Len(sentences)
           /\ Oversized(i) /\ SentTokens(i) > config.overlap_tokens
           /\ \E j \in DOMAIN windows : i \in Range(windows[j]) /\ Len(windows[j]) >= 2

\* C11: within the list one chunk_text call returns, chunk_index values are
\* pairwise distinct, also when the hierarchy step has made parent chunks
\* (taken for valid configurations).
C11_IndexDistinct ==
    (pc = "done" /\ ValidConfig) =>
        \A j, k \in DOMAIN result :
            result[j].chunk_index = result[k].chunk_index => j = k

\* The result of a finished call is made from the call's own chunks alone:
\* with deduplication the first chunk of each hash of its list, else the list.
OwnResult(f) ==
    f.result = IF config.enable_deduplication
               THEN AtPositions(f.hier, FirstOfHash(f.hier), 1)
               ELSE f.hier

\* The hashes of the chunks of a list.
Hashes(cs) == {cs[k].chunk_hash : k \in DOMAIN cs}

\* C12: two calls of chunk_text on the same chunker, one after the other or
\* interleaved, are independent: no chunk of a call is dropped for a hash
\* the other call has emitted, and two calls with the same text (one of them
\* possibly the first call on the new chunker, run alone) end with the same
\* chunks.
C12_CallsIndependent ==
    /\ pc = "done" => OwnResult(Frame)
    /\ (other # None /\ other[1].pc = "done") => OwnResult(other[1])
    /\ (other # None /\ pc = "done" /\ other[1].pc = "done" /\ text = other[1].text)
           => Frame = other[1]

\* C12 witness: both calls have returned with deduplication enabled, each
\* keeping a chunk whose hash the other call has emitted too.
C12_Witness ==
    /\ other # None
    /\ pc = "done" /\ other[1].pc = "done"
    /\ config.enable_deduplication
    /\ text # other[1].text
    /\ Hashes(result) \cap Hashes(other[1].result) # {}

\* C13: chunk_text on an empty or white-space-only text raises no error and
\* returns the empty list, for every configuration.
C13_BlankText ==
    Strip(text) = <<>> =>
        /\ pc # "raised"
        /\ error = None
        /\ pc = "done" => result = <<>>

\* C13 witness: a call on a text of white space only has returned, with
\* structure detection and deduplication enabled.
C13_Witness ==
    /\ pc = "done"
    /\ text # <<>> /\ Strip(text) = <<>>
    /\ config.detect_structure /\ config.enable_deduplication
    /\ result = <<>>

\* C20: when the tokenizer raises during a call, chunk_text raises and
\* returns no list: the call never reaches its return, and no chunk list,
\* partial or degraded, is handed out.
C20_TokenizerErrorRaised ==
    error # None => (pc = "raised" /\ result = <<>>)

\* C20 witness: the tokenizer raised in the loop after chunks had been built
\* and before the last sentence was reached.
C20_Witness ==
    /\ pc = "raised"
    /\ error # None
    /\ chunks # <<>>
    /\ 0 < sent_idx /\ sent_idx < Len(sentences)

\* The place of the input chunk k in the returned list: a chunk that is no
\* synthesized parent and has the input chunk's chunk_index.
ImageAt(p, k) == ~IsParent(hier[p]) /\ hier[p].chunk_index = chunks[k].chunk_index

\* C14: _add_chunk_hierarchy keeps the relative order of its input chunks:
\* of two input chunks, the one that stands first in the input stands first
\* in the output.
C14_OrderKept ==
    pc = "returned" =>
        \A i, j \in DOMAIN chunks :
            i < j => \E p, q \in DOMAIN hier : p < q /\ ImageAt(p, i) /\ ImageAt(q, j)

\* The parent chunks of the returned list that carry the title of group g.
ParentsOf(g) ==
    {p \in DOMAIN hier : IsParent(hier[p]) /\ hier[p].section_title = Some(g.title)}

\* C15: of the section groups the function has formed (section_chunks), a
\* group of more than 3 chunks gets exactly one parent chunk of chunk_level
\* 0 with is_parent and child_count the group's size, and each of its chunks
\* is returned with chunk_level 1 and that parent's id; a group of at most 3
\* chunks gets no parent and its chunks are returned as they were, at
\* chunk_level 0.
C15_ParentIffLarge ==
    pc = "returned" =>
        \A g \in DOMAIN SectionGroups(chunks) :
            LET group == SectionGroups(chunks)[g]
                size == Len(group.members)
            IN  IF size > 3
                THEN /\ Cardinality(ParentsOf(group)) = 1
                     /\ \A p \in ParentsOf(group) :
                            /\ hier[p].chunk_level = 0
                            /\ hier[p].metadata.child_count = size
                            /\ \A m \in Range(group.members) :
                                   \E q \in DOMAIN hier :
                                       hier[q] = [chunks[m] EXCEPT
                                                     !.chunk_level = 1,
                                                     !.parent_chunk_id = Some(hier[p].chunk_index)]
                ELSE /\ ParentsOf(group) = {}
                     /\ \A m \in Range(group.members) :
                            /\ chunks[m].chunk_level = 0
                            /\ \E q \in DOMAIN hier : hier[q] = chunks[m]

\* C15 witness: two sections of more than 3 chunks each were given a parent
\* each, with different ids.
C15_Witness ==
    /\ pc = "returned"
    /\ \E g, h \in DOMAIN SectionGroups(chunks) :
           /\ g # h
           /\ Len(SectionGroups(chunks)[g].members) > 3
           /\ Len(SectionGroups(chunks)[h].members) > 3
           /\ \E p, q \in DOMAIN hier :
                  /\ IsParent(hier[p]) /\ IsParent(hier[q])
                  /\ hier[p].chunk_index # hier[q].chunk_index

\* C16: a chunk with no section_title (None or empty) is left ungrouped, at
\* any place of the input list: it is returned as it was, with chunk_level 0
\* and no parent_chunk_id, and it counts toward no section: the child_count
\* of a parent is the number of input chunks that have the parent's title,
\* and a parent is made only for a title that more than 3 input chunks have.
C16_UntitledUngrouped ==
    pc = "returned" =>
        /\ \A k \in DOMAIN chunks :
               ~HasTitle(chunks[k]) =>
                   \E q \in DOMAIN hier :
                       /\ hier[q] = chunks[k]
                       /\ hier[q].chunk_level = 0
                       /\ hier[q].parent_chunk_id = None
        /\ \A p \in DOMAIN hier :
               IsParent(hier[p]) =>
                   LET titled == {k \in DOMAIN chunks :
                                     chunks[k].section_title = hier[p].section_title}
                   IN  /\ hier[p].metadata.child_count = Cardinality(titled)
                       /\ Cardinality(titled) > 3

\* The spans are in increasing order, none empty, each ending where the next
\* one starts.
SpansContiguous ==
    /\ \A i \in DOMAIN sentences : sentences[i].start < sentences[i].end
    /\ \A i \in 1..(Len(sentences) - 1) : sentences[i].end = sentences[i + 1].start

\* The spans start at 0 and end at len(text).
SpansCoverText ==
    /\ sentences # <<>>
    /\ sentences[1].start = 0
    /\ sentences[Len(sentences)].end = StrLen(text)

\* The text has no sentence-ending punctuation.
NoEndChar(t) == \A i \in DOMAIN t : t[i][1] \notin EndChars

\* C17 as claimed: the spans of _split_into_sentences are in increasing
\* order, do not overlap and are contiguous; for a text that is not white
\* space only the first starts at 0 and the last ends at len(text); a text
\* with no sentence-ending punctuation yields one span covering the whole
\* input, and the empty text yields no span.
C17_SpansPartition ==
    pc = "returned" =>
        /\ SpansContiguous
        /\ Strip(text) # <<>> => SpansCoverText
        /\ (text # <<>> /\ NoEndChar(text)) => (Len(sentences) = 1 /\ SpansCoverText)
        /\ text = <<>> => sentences = <<>>

\* C17 as amended: as claimed, but a text with no sentence-ending
\* punctuation yields one span covering the whole input when it is not white
\* space only; a text of white space only, like the empty text, yields no
\* span.
C17_SpansPartitionNonBlank ==
    pc = "returned" =>
        /\ SpansContiguous
        /\ Strip(text) # <<>> => SpansCoverText
        /\ (Strip(text) # <<>> /\ NoEndChar(text)) => (Len(sentences) = 1 /\ SpansCoverText)
        /\ Strip(text) = <<>> => sentences = <<>>

\* C17 witness: a text that begins and ends with white space was split into
\* two spans or more.
C17_Witness ==
    /\ pc = "returned"
    /\ Len(sentences) >= 2
    /\ IsSpace(text[1][1])
    /\ IsSpace(text[Len(text)][1])

\* The contents of the chunks of cs, joined with blank lines.
RECURSIVE JoinBlank(_)
JoinBlank(cs) ==
    IF cs = <<>> THEN <<>>
    ELSE IF Len(cs) = 1 THEN cs[1].content
    ELSE Cat(Cat(cs[1].content, BlankLine), JoinBlank(Tail(cs)))

\* out is ins cut into runs of neighbours, one run per chunk of out, the
\* content of the chunk being the contents of its run with blank lines
\* between them: with these separators taken out, the contents of out in
\* order are the contents of ins in order.
RECURSIVE ContentKept(_, _)
ContentKept(out, ins) ==
    IF out = <<>> THEN ins = <<>>
    ELSE \E n \in 1..Len(ins) :
             /\ out[1].content = JoinBlank(SubSeq(ins, 1, n))
             /\ ContentKept(Tail(out), SubSeq(ins, n + 1, Len(ins)))

\* C18: merge_small_chunks returns at most as many chunks as it was given,
\* and the contents of the output in order, the inserted blank lines taken
\* out, are the contents of the input in order.
C18_MergeKeepsContent ==
    pc = "returned" =>
        /\ Len(result) <= Len(chunks)
        /\ ContentKept(result, chunks)

\* C18 witness: small chunks were merged with the chunk before and with the
\* chunk after, and a chunk was returned as it was.
C18_Witness ==
    /\ pc = "returned"
    /\ Len(result) >= 2
    /\ Len(result) < Len(chunks) - 1
    /\ \E j \in DOMAIN result : \E k \in DOMAIN chunks : result[j] = chunks[k]

Small(c) == 2 * c.token_count < config.min_tokens

\* As ContentKept, and each chunk of out has the token counts of its run
\* summed, and no run is a single small chunk that another chunk follows in
\* the input.
RECURSIVE SmallMerged(_, _)
SmallMerged(out, ins) ==
    IF out = <<>> THEN ins = <<>>
    ELSE \E n \in 1..Len(ins) :
             /\ out[1].content = JoinBlank(SubSeq(ins, 1, n))
             /\ out[1].token_count = SumSeq([i \in 1..n |-> ins[i].token_count])
             /\ (n = 1 /\ Small(ins[1])) => Len(ins) = 1
             /\ SmallMerged(Tail(out), SubSeq(ins, n + 1, Len(ins)))

\* C19: after merge_small_chunks every input chunk of fewer than
\* min_tokens / 2 tokens that another input chunk follows is merged with a
\* neighbour (it is no output chunk by itself), and the token_count of a
\* merged output chunk is the sum of the token counts of the input chunks it
\* combines.
C19_SmallChunksMerged ==
    pc = "returned" => SmallMerged(result, chunks)

\* C19 witness: small chunks were gathered up to min_tokens or more and
\* returned as one chunk before a chunk that is not small.
C19_Witness ==
    /\ pc = "returned"
    /\ \E j \in 1..(Len(result) - 1) :
           /\ result[j].token_count >= config.min_tokens
           /\ \E k \in DOMAIN chunks :
                  /\ Small(chunks[k])
                  /\ result[j].start_char = chunks[k].start_char
                  /\ result[j].end_char > chunks[k].end_char
           /\ \E k \in DOMAIN chunks : ~Small(chunks[k]) /\ result[j + 1] = chunks[k]

-----------------------------------------------------------------------------
(* The soft cutoff and the overlap                                         *)

LastOf(w) == w[Len(w)]

\* The latest loop iteration closed its window by soft cutoff: the last
\* closed window ends with the sentence of that iteration (a hard cutoff
\* closes a window that ends with the sentence before).
SoftClosed ==
    /\ pc = "loop" /\ sent_idx >= 1
    /\ windows # <<>> /\ LastOf(windows[Len(windows)]) = sent_idx

\* The window the sentence of the latest loop iteration was added to.
LatestWindow == IF SoftClosed THEN windows[Len(windows)] ELSE current_chunk

\* The tokens of the up to four sentences after sentence i.
Lookahead(i) ==
    SumSeq([k \in 1..4 |-> IF i + k <= Len(sentences) THEN SentTokens(i + k) ELSE 0])

\* After sentence i was added to the window w, the first two conditions of
\* the soft cutoff hold.
MayBreakAfter(w, i) ==
    /\ WindowTokens(w) >= config.min_tokens
    /\ is_good_break_point(i - 1, sentences, structures)

\* The window is closed by soft cutoff after sentence i exactly when it has
\* min_tokens tokens or more, the place is a good break point and the
\* lookahead is min_tokens / 2 or more.
SoftCutoffExactly ==
    (pc = "loop" /\ sent_idx >= 1) =>
        (SoftClosed <=> /\ MayBreakAfter(LatestWindow, sent_idx)
                        /\ 2 * Lookahead(sent_idx) >= config.min_tokens)

SeedOf(w) ==
    LET ks == {k \in 0..Len(w) :
                  WindowTokens(SubSeq(w, Len(w) - k + 1, Len(w))) <= config.overlap_tokens}
        n == CHOOSE k \in ks : \A m \in ks : m <= k
    IN  SubSeq(w, Len(w) - n + 1, Len(w))

\* The sentences first, first + 1, ..., of which there are n.
RunFrom(first, n) == [k \in 1..n |-> first + k - 1]

\* The window next is the seed of the closed window w and then the sentences
\* that follow w, none left out.
SeededBy(next, w) ==
    LET seed == SeedOf(w)
    IN  /\ Len(next) >= Len(seed)
        /\ next = seed \o RunFrom(LastOf(w) + 1, Len(next) - Len(seed))

\* C22: after a window is closed, the next window begins with the longest
\* suffix of the closed window's sentences that has at most overlap_tokens
\* tokens and goes on with the next sentence; with overlap_tokens = 0 it
\* begins at the next sentence, and every sentence is in exactly one window.
C22_OverlapSeed ==
    /\ \A j \in 1..(Len(windows) - 1) : SeededBy(windows[j + 1], windows[j])
    /\ (pc = "loop" /\ windows # <<>> /\ sent_idx < Len(sentences))
           => SeededBy(current_chunk, windows[Len(windows)])
    /\ (WindowsDone /\ config.overlap_tokens = 0)
           => \A i \in DOMAIN sentences :
                  Cardinality({j \in DOMAIN windows : i \in Range(windows[j])}) = 1

\* C22 witness: under a valid configuration a window of two sentences or
\* more was closed, and the next window, closed as well, begins with some but
\* not all of its sentences and has a sentence more.
C22_Witness ==
    /\ ValidConfig
    /\ \E j \in 1..(Len(windows) - 1) :
           /\ Len(SeedOf(windows[j])) >= 1
           /\ Len(SeedOf(windows[j])) < Len(windows[j])
           /\ Len(windows[j + 1]) > Len(SeedOf(windows[j]))
           /\ SeededBy(windows[j + 1], windows[j])

\* C23: every chunk of the sliding window has the start offset of the first
\* sentence of its window as start_char and the end offset of the last as
\* end_char, also after a cutoff whose overlap came out empty with
\* overlap_tokens > 0 (taken for valid configurations).
C23_SpanOfWindow ==
    ValidConfig =>
        \A j \in DOMAIN chunks :
            /\ chunks[j].start_char = sentences[windows[j][1]].start
            /\ chunks[j].end_char = sentences[LastOf(windows[j])].end

-----------------------------------------------------------------------------
(* Page numbers                                                            *)

\* breaks[i] is the first page break that exceeds the offset x.
FirstAbove(breaks, i, x) ==
    /\ i \in DOMAIN breaks
    /\ breaks[i] > x
    /\ \A j \in 1..(i - 1) : ~ (breaks[j] > x)

\* C24: with page_breaks supplied, the start_page of each chunk is 1 + the
\* (0-based) index of the first page break that exceeds start_char, and its
\* end_page is 1 + the index of the first page break that exceeds end_char.
C24_PagesFromBreaks ==
    page_breaks # <<>> =>
        \A j \in DOMAIN chunks :
            /\ \E i \in DOMAIN page_breaks :
                   /\ FirstAbove(page_breaks, i, chunks[j].start_char)
                   /\ chunks[j].start_page = Some(i)
            /\ \E i \in DOMAIN page_breaks :
                   /\ FirstAbove(page_breaks, i, chunks[j].end_char)
                   /\ chunks[j].end_page = Some(i)

\* start < end, and a chunk with an end_page has a start_page that is not
\* after it.
PagesInOrder(c) ==
    /\ c.start_char < c.end_char
    /\ c.end_page # None =>
           (c.start_page # None /\ c.start_page[1] <= c.end_page[1])

\* C30: with page_breaks supplied, every chunk (of the sliding window, and
\* of the list after the hierarchy step) has start_char < end_char, and if
\* its end_page is set its start_page is set too and is at most end_page.
C30_PagesInOrder ==
    page_breaks # <<>> =>
        /\ \A j \in DOMAIN chunks : PagesInOrder(chunks[j])
        /\ \A j \in DOMAIN hier : PagesInOrder(hier[j])

\* C30 witness: with two page breaks in order, a chunk of the sliding window
\* begins on the first page and ends on the second, and a later chunk has
\* no end_page.
C30_Witness ==
    /\ page_breaks = <<3, 6>>
    /\ \E j \in DOMAIN chunks :
           /\ chunks[j].start_page = Some(1)
           /\ chunks[j].end_page = Some(2)
    /\ \E j \in DOMAIN chunks : chunks[j].end_page = None
    /\ \A j \in DOMAIN chunks : PagesInOrder(chunks[j])

-----------------------------------------------------------------------------
(* Special blocks                                                          *)

\* The flags of detect_special_blocks after the first k lines, each by the
\* lines alone: in_code_block changes at every line with a fence; in_table is
\* set by a table row and cleared by any other line, lines with a fence
\* aside; in_list is set by a list item and cleared by any other line that
\* is not blank.
RECURSIVE FlagAfter(_, _, _)
FlagAfter(type, lines, k) ==
    IF k = 0 THEN FALSE
    ELSE LET line == lines[k]
             before == FlagAfter(type, lines, k - 1)
         IN  IF type = "code" THEN (IF HasFence(line) THEN ~before ELSE before)
             ELSE IF type = "table"
                  THEN (IF HasFence(line) THEN before ELSE TableMatch(line))
             ELSE IF ListMatch(line) THEN TRUE
                  ELSE IF Strip(line) # <<>> THEN FALSE ELSE before

\* The block b has the range of one block of its type: its flag was set at
\* the line of index b.start and stayed so up to the line of index last,
\* which cleared it.
OneBlock(b, lines, last) ==
    /\ b.start >= 0 /\ b.start < b.end
    /\ ~FlagAfter(b.type, lines, b.start)
    /\ \A k \in (b.start + 1)..last : FlagAfter(b.type, lines, k)
    /\ ~FlagAfter(b.type, lines, last + 1)

\* C25: every block detect_special_blocks emits has the line range of one
\* block of its type, from the line that set the type's flag to the line
\* that cleared it (the closing fence and one more for code), with
\* start < end, also when blocks of several types overlap or nest.
C25_BlockRanges ==
    pc # "start" =>
        \A n \in DOMAIN special_blocks :
            LET b == special_blocks[n]
            IN  OneBlock(b, Lines(text), IF b.type = "code" THEN b.end - 1 ELSE b.end)

\* The line (0-based) of the character offset p of the text.
LineOf(p) == CountChar(Take(text, p), "\n")

\* The offset p lies inside a special block: the characters before and after
\* it are on lines of the block.
InsideBlock(p) ==
    /\ 0 < p /\ p < StrLen(text)
    /\ \E n \in DOMAIN special_blocks :
           /\ special_blocks[n].start <= LineOf(p - 1)
           /\ LineOf(p) < special_blocks[n].end

\* C26: the sliding window never closes a window by soft cutoff at a
\* position inside a detected special block (taken for valid
\* configurations).
C26_NoBreakInBlock ==
    (ValidConfig /\ SoftClosed) => ~InsideBlock(sentences[sent_idx].end)

-----------------------------------------------------------------------------
(* The page breaks process_document passes                                 *)

\* The offset in the combined text at which the text of page k ends: the
\* texts of the pages 1..k and the k - 1 separators "\n\n" between them.
PageEnd(k) ==
    SumSeq([j \in 1..k |-> StrLen(PageText(ocr_results[j]))]) + 2 * (k - 1)

\* chunk_text was called by process_document.
CalledByService == pc \notin {"process", "raised"} /\ document # None

\* C27: process_document passes chunk_text one page break for every page
\* but the last, in non-decreasing order, each the offset in the combined
\* text (the text that is chunked) at which that page's text ends.
C27_PageBreaksPassed ==
    CalledByService =>
        /\ Len(page_breaks) = Len(ocr_results) - 1
        /\ \A k \in 1..(Len(page_breaks) - 1) : page_breaks[k] <= page_breaks[k + 1]
        /\ \A k \in DOMAIN page_breaks :
               /\ page_breaks[k] = PageEnd(k)
               /\ Take(text, page_breaks[k]) =
                      JoinPages([j \in 1..k |-> PageText(ocr_results[j])])

-----------------------------------------------------------------------------
(* The sentences of the chunks                                             *)

\* C28: before deduplication every sentence is in a chunk of the sliding
\* window or more, and the content of each chunk is the join, with single
\* spaces, of sentences that follow one another in the text, none left out
\* and in their order.
C28_SentencesKept ==
    /\ Len(chunks) = Len(windows)
    /\ \A j \in DOMAIN chunks :
           LET w == windows[j]
           IN  /\ w # <<>>
               /\ w = RunFrom(w[1], Len(w))
               /\ LastOf(w) <= Len(sentences)
               /\ chunks[j].content = JoinSpace([k \in DOMAIN w |-> sentences[w[k]].text])
    /\ WindowsDone =>
           \A i \in DOMAIN sentences : \E j \in DOMAIN windows : i \in Range(windows[j])

\* C28 witness: under a valid configuration a text of three sentences or
\* more was made into two chunks or more, one of them of several sentences,
\* and every sentence is in a chunk.
C28_Witness ==
    /\ WindowsDone /\ ValidConfig
    /\ Len(sentences) >= 3
    /\ Len(chunks) >= 2
    /\ \E j \in DOMAIN windows : Len(windows[j]) >= 2
    /\ \A i \in DOMAIN sentences : \E j \in DOMAIN windows : i \in Range(windows[j])

\* C29: every chunk of the sliding window but the first has a sentence that
\* the chunk before it does not have (taken for valid configurations).
C29_NewSentence ==
    ValidConfig =>
        \A j \in 2..Len(windows) :
            \E k \in DOMAIN windows[j] : windows[j][k] \notin Range(windows[j - 1])

=============================================================================
